---- MODULE Spec2Model ----
(***************************************************************************)
(* ERASH backend: the hash-chained ledger (ledger.py), the certificate     *)
(* route that feeds it (app.py, certificate.py) and the wipe-job registry  *)
(* with its worker threads (wipe_service.py).                              *)
(*                                                                         *)
(* Strings that the code only stores and compares are kept as strings.     *)
(* Everything that is hashed is first serialised to a sequence of integer  *)
(* tokens (json.dumps with sort_keys=True); SHA-256 is taken to be         *)
(* collision free, so a digest is identified with the token sequence it    *)
(* was computed from.                                                      *)
(***************************************************************************)
EXTENDS Integers, Sequences, FiniteSets, TLC

\* ------------------------------------------------------------------ bounds
MaxClock == 1        \* the ledger clock runs over 0..MaxClock
NumCallers == 2      \* concurrent /api/certificate/generate requests
NumStarters == 2     \* concurrent /api/wipe/start requests
MaxAppended == 2     \* blocks appended to a ledger found at start-up

\* Python None, where the code expects a number
None == -1

Callers == 1..NumCallers
NoCaller == 0
Starters == 1..NumStarters
NoWorker == 0

VARIABLES
  now,               \* datetime.now() / time.time()
  ledger_file,       \* the JSON file at ledger_path
  ledger_lock,       \* LedgerService.ledger_lock: NoCaller or its holder
  cert_pc,           \* each request's position in generate_certificate (app.py)
  cert_req,          \* its inputs: wipe report, device info, record_on_blockchain
  temp_cert,         \* app.py:172 temp_cert
  loc_ledger,        \* ledger.py:87 the ledger loaded by _record_local_erasure
  ledger_entry,      \* app.py:175 ledger_entry
  certificate_data,  \* app.py:178/181 certificate_data
  audit              \* the last call that reads the ledger, and its result

ledger_vars == <<ledger_file, ledger_lock, cert_pc, cert_req, temp_cert,
                 loc_ledger, ledger_entry, certificate_data, audit>>

VARIABLES
  active_wipes,      \* WipeService.active_wipes: wipe_id -> job record
  wipe_lock,         \* WipeService.wipe_lock: NoWorker or the worker inside
  start_pc,          \* each start request's position in start_wipe
  start_args,        \* its arguments and the wipe_id it computed
  start_result,      \* what start_wipe returned to it
  worker,            \* the thread it launched: position in _run_wipe, locals
  poll_ref,          \* the job record a status request was handed
  log_poll,          \* a client polling /api/wipe/logs: job, since, lines got
  report             \* get_wipe_report: the report being built from a job record

wipe_vars == <<active_wipes, wipe_lock, start_pc, start_args, start_result,
               worker, poll_ref, log_poll, report>>

\* ------------------------------------------------------------ serialisation
Min(a, b) == IF a < b THEN a ELSE b
Max(a, b) == IF a > b THEN a ELSE b

HashWidth == 64
\* '1' * 64
OnesHash == [i \in 1..HashWidth |-> 1]

\* '0' * 64
ZeroHash == [i \in 1..HashWidth |-> 0]

\* hashlib.sha256(s).hexdigest(): collision free, the digest stands for s
sha256(tokens) == tokens

StatusCode(s) ==
  CASE s = "starting" -> 1
    [] s = "running" -> 2
    [] s = "completed" -> 3
    [] s = "failed" -> 4
    [] OTHER -> 0

BoolCode(b) == IF b THEN 1 ELSE 0

\* json.dumps of the genesis message
MessageCode(m) == IF m = "ERASH Ledger Genesis Block" THEN 0 ELSE 1

\* json.dumps(block_copy['data'], sort_keys=True): keys in lexicographic order
DataTokens(data) ==
  IF data.type = "genesis"
    THEN <<MessageCode(data.message), 0>>
    ELSE data.certificate_hash \o data.certificate_id
         \o <<data.device_model, data.device_serial, data.device_type,
              BoolCode(data.simulated), 1, data.wipe_end, data.wipe_method,
              data.wipe_start, StatusCode(data.wipe_status)>>

\* ledger.py:166-173
_calculate_block_hash(block_data) ==
  LET txn == IF "transaction_id" \in DOMAIN block_data
               THEN block_data.transaction_id ELSE << >>
  IN sha256(<<block_data.block_index>> \o DataTokens(block_data.data)
            \o block_data.previous_hash \o <<block_data.timestamp>> \o txn)

\* ledger.py:175-178, 'TXN-' + sha256(serial_wipeid_now)[:16]
_generate_transaction_id(device_info, wipe_report, t) ==
  <<9>> \o sha256(<<device_info.serial, wipe_report.wipe_id, t>>)

\* certificate.py:229-232
_generate_cert_id(device_info, wipe_report, t) ==
  sha256(<<device_info.serial, wipe_report.wipe_id, t>>)

DeviceTokens(d) == <<d.model, d.name, d.serial, d.type>>

ReportTokens(r) ==
  <<r.device, r.end_time, r.method, BoolCode(r.simulated), r.start_time,
    StatusCode(r.status), r.wipe_id>>

\* certificate.py:168-173 and 234-237
_calculate_hash(device_info, wipe_report, cert_id) ==
  sha256(cert_id \o DeviceTokens(device_info) \o ReportTokens(wipe_report))

\* certificate.py:25-227: what the caller gets back, the PDF left out
generate_certificate(wipe_report, device_info, t) ==
  LET cert_id == _generate_cert_id(device_info, wipe_report, t)
  IN [certificate_id |-> cert_id,
      certificate_hash |-> _calculate_hash(device_info, wipe_report, cert_id)]

\* ledger.py:48-61
_create_genesis_block(t) ==
  LET genesis_data == [block_index |-> 0,
                       timestamp |-> t,
                       data |-> [type |-> "genesis",
                                 message |-> "ERASH Ledger Genesis Block"],
                       previous_hash |-> ZeroHash]
  IN [block_index |-> 0,
      timestamp |-> t,
      data |-> genesis_data.data,
      previous_hash |-> ZeroHash,
      block_hash |-> _calculate_block_hash(genesis_data)]

\* blocks[:n], Python slicing
PyPrefix(blocks, n) ==
  IF n >= 0 THEN SubSeq(blocks, 1, Min(n, Len(blocks)))
            ELSE SubSeq(blocks, 1, Max(Len(blocks) + n, 0))

\* ledger.py:277-290, the loop from index i (0-based) on
RECURSIVE ChainLoop(_, _)
ChainLoop(blocks, i) ==
  IF i >= Len(blocks) THEN TRUE
  ELSE LET current_block == blocks[i + 1]
           previous_block == blocks[i]
       IN IF current_block.previous_hash # previous_block.block_hash THEN FALSE
          ELSE IF _calculate_block_hash(current_block) # current_block.block_hash
                 THEN FALSE
                 ELSE ChainLoop(blocks, i + 1)

\* ledger.py:273-290
_verify_chain_integrity(blocks, up_to_block_index) ==
  ChainLoop(PyPrefix(blocks, up_to_block_index + 1), 1)

\* ------------------------------------------------------------------ inputs
\* wipe_service.py:114-170, a detected device; serial, model and type as codes
DeviceInfo(path) ==
  [name |-> path, serial |-> path, model |-> path, type |-> 1]

\* the wipes a certificate can be requested for: wipe w ran on device w
WipeIds == {1, 2}

\* wipe_service.py:381-392, the report of wipe w; a report exists for every
\* job of the registry, finished (wipe 1) or not (wipe 2)
WipeReport(w) ==
  [wipe_id |-> w, device |-> w, method |-> 1,
   status |-> IF w = 1 THEN "completed" ELSE "running",
   start_time |-> 0,
   end_time |-> IF w = 1 THEN 0 ELSE -1, simulated |-> TRUE]

NoCert == [certificate_id |-> << >>, certificate_hash |-> << >>]
NoEntry == [block_index |-> -1]
NoReq == [wipe_report |-> WipeReport(0), device_info |-> DeviceInfo(0),
          record_on_blockchain |-> FALSE]

\* no call has read the ledger yet
NoAudit == [op |-> "none"]

\* no request is being served
CallersInit ==
  /\ ledger_lock = NoCaller
  /\ cert_pc = [c \in Callers |-> "idle"]
  /\ cert_req = [c \in Callers |-> NoReq]
  /\ temp_cert = [c \in Callers |-> NoCert]
  /\ loc_ledger = [c \in Callers |-> << >>]
  /\ ledger_entry = [c \in Callers |-> NoEntry]
  /\ certificate_data = [c \in Callers |-> NoCert]
  /\ audit = NoAudit

\* the first start of the server: there is no ledger file
LedgerInit ==
  /\ ledger_file = [exists |-> FALSE, partial |-> FALSE, blocks |-> << >>]
  /\ CallersInit

\* ------------------------------------------------------------------ ledger
\* datetime.now(): a reading is any instant from the last reading on
Clock == now..MaxClock

\* a test that takes every file for missing
FileAlwaysMissing(file) == TRUE

\* ledger.py:32 not os.path.exists(self.ledger_path)
FileMissing(file) == ~file.exists

\* ledger.py:30-46: a ledger with the genesis block is written when there is
\* no ledger file
InitialiseFile ==
  IF FileMissing(ledger_file)
    THEN \E t \in Clock :
           /\ now' = t
           /\ ledger_file' = [exists |-> TRUE, partial |-> FALSE,
                              blocks |-> <<_create_genesis_block(t)>>]
    ELSE UNCHANGED <<now, ledger_file>>

\* ledger.py:28-46, run by LedgerService.__init__ when the server starts
_initialize_local_ledger ==
  /\ \A c \in Callers : cert_pc[c] \in {"idle", "done"}
  /\ InitialiseFile
  /\ UNCHANGED <<wipe_vars, audit, ledger_lock, cert_pc, cert_req, temp_cert,
                 loc_ledger, ledger_entry, certificate_data>>

\* app.py:127-172 and 179-181: the request arrives, the report and the device
\* are looked up and the certificate is generated a first time; the requests
\* are numbered in the order in which they arrive
CertGenerateAt(c, at) ==
  /\ cert_pc[c] = at
  /\ \A d \in Callers : d < c => cert_pc[d] # "idle"
  /\ ledger_file.exists
  /\ \E w \in WipeIds, rec \in BOOLEAN, t \in Clock :
       LET cert == generate_certificate(WipeReport(w), DeviceInfo(w), t)
       IN /\ now' = t
          /\ cert_req' = [cert_req EXCEPT ![c] =
                            [wipe_report |-> WipeReport(w),
                             device_info |-> DeviceInfo(w),
                             record_on_blockchain |-> rec]]
          /\ IF rec
               THEN /\ temp_cert' = [temp_cert EXCEPT ![c] = cert]
                    /\ cert_pc' = [cert_pc EXCEPT ![c] = "lock"]
                    /\ UNCHANGED certificate_data
               ELSE /\ certificate_data' = [certificate_data EXCEPT ![c] = cert]
                    /\ cert_pc' = [cert_pc EXCEPT ![c] = "done"]
                    /\ UNCHANGED temp_cert
  /\ UNCHANGED <<wipe_vars, audit, ledger_file, ledger_lock, loc_ledger, ledger_entry>>

\* the request generates its certificate as soon as it arrives
CertGenerate(c) == CertGenerateAt(c, "idle")

\* a lock that never makes anybody wait
LockNeverHeld(lock) == TRUE

\* threading.Lock: acquire goes through when nobody holds the lock
LockFree(lock) == lock = NoCaller

\* ledger.py:84 with self.ledger_lock
RecordAcquire(c) ==
  /\ cert_pc[c] = "lock"
  /\ LockFree(ledger_lock)
  /\ ledger_lock' = c
  /\ cert_pc' = [cert_pc EXCEPT ![c] = "load"]
  /\ UNCHANGED <<wipe_vars, audit, now, ledger_file, cert_req, temp_cert, loc_ledger,
                 ledger_entry, certificate_data>>

\* the same with ledger['blocks'][0] read for ledger['blocks'][-1]
PreviousHashOfFirst(blocks) ==
  IF Len(blocks) > 0 THEN blocks[1].block_hash ELSE ZeroHash

\* ledger.py:90
PreviousHash(blocks) ==
  IF Len(blocks) > 0 THEN blocks[Len(blocks)].block_hash ELSE ZeroHash

\* ledger.py:93-117, the block built from the loaded ledger: the transaction
\* id is made at t1 and the block is stamped at t2
NewBlock(blocks, cert, wipe_report, device_info, t1, t2) ==
  LET body == [block_index |-> Len(blocks),
               timestamp |-> t2,
               transaction_id |->
                 _generate_transaction_id(device_info, wipe_report, t1),
               data |-> [type |-> "erasure_certificate",
                         certificate_id |-> cert.certificate_id,
                         certificate_hash |-> cert.certificate_hash,
                         device_serial |-> device_info.serial,
                         device_model |-> device_info.model,
                         device_type |-> device_info.type,
                         wipe_method |-> wipe_report.method,
                         wipe_status |-> wipe_report.status,
                         wipe_start |-> wipe_report.start_time,
                         wipe_end |-> wipe_report.end_time,
                         simulated |-> wipe_report.simulated],
               previous_hash |-> PreviousHash(blocks)]
  IN [block_index |-> body.block_index,
      timestamp |-> body.timestamp,
      transaction_id |-> body.transaction_id,
      data |-> body.data,
      previous_hash |-> body.previous_hash,
      block_hash |-> _calculate_block_hash(body)]

\* ledger.py:86-120: json.load, the new block, ledger['blocks'].append
RecordLoad(c) ==
  /\ cert_pc[c] = "load"
  /\ ~ledger_file.partial
  /\ \E t1 \in Clock :
       \E t2 \in t1..MaxClock :
         /\ now' = t2
         /\ loc_ledger' = [loc_ledger EXCEPT ![c] =
                             Append(ledger_file.blocks,
                                    NewBlock(ledger_file.blocks, temp_cert[c],
                                             cert_req[c].wipe_report,
                                             cert_req[c].device_info, t1, t2))]
  /\ cert_pc' = [cert_pc EXCEPT ![c] = "open"]
  /\ UNCHANGED <<wipe_vars, audit, ledger_file, ledger_lock, cert_req, temp_cert,
                 ledger_entry, certificate_data>>

\* ledger.py:123 open(ledger_path, 'w') truncates the file
RecordOpen(c) ==
  /\ cert_pc[c] = "open"
  /\ ledger_file' = [exists |-> TRUE, partial |-> TRUE, blocks |-> << >>]
  /\ cert_pc' = [cert_pc EXCEPT ![c] = "dump"]
  /\ UNCHANGED <<wipe_vars, audit, now, ledger_lock, cert_req, temp_cert, loc_ledger,
                 ledger_entry, certificate_data>>

\* ledger.py:124-135: json.dump(ledger, f), the file is closed, the entry is
\* returned and the lock released
RecordDump(c) ==
  /\ cert_pc[c] = "dump"
  /\ ledger_file' = [exists |-> TRUE, partial |-> FALSE, blocks |-> loc_ledger[c]]
  /\ LET block_data == loc_ledger[c][Len(loc_ledger[c])]
     IN ledger_entry' = [ledger_entry EXCEPT ![c] =
                           [block_index |-> block_data.block_index,
                            block_hash |-> block_data.block_hash,
                            transaction_id |-> block_data.transaction_id,
                            timestamp |-> block_data.timestamp,
                            previous_hash |-> block_data.previous_hash,
                            certificate_hash |-> temp_cert[c].certificate_hash]]
  /\ ledger_lock' = NoCaller
  /\ cert_pc' = [cert_pc EXCEPT ![c] = "regenerate"]
  /\ UNCHANGED <<wipe_vars, audit, now, cert_req, temp_cert, loc_ledger, certificate_data>>

\* app.py:177-178: the certificate is generated again, with the ledger entry
CertRegenerate(c) ==
  /\ cert_pc[c] = "regenerate"
  /\ \E t \in Clock :
       /\ now' = t
       /\ certificate_data' = [certificate_data EXCEPT ![c] =
                                 generate_certificate(cert_req[c].wipe_report,
                                                      cert_req[c].device_info, t)]
  /\ cert_pc' = [cert_pc EXCEPT ![c] = "done"]
  /\ UNCHANGED <<wipe_vars, audit, ledger_file, ledger_lock, cert_req, temp_cert, loc_ledger,
                 ledger_entry>>

LedgerNext ==
  \/ _initialize_local_ledger
  \/ \E c \in Callers :
       \/ CertGenerate(c)
       \/ RecordAcquire(c)
       \/ RecordLoad(c)
       \/ RecordOpen(c)
       \/ RecordDump(c)
       \/ CertRegenerate(c)

\* ------------------------------------------------------------ ledger reads
\* json.load(f) raises unless the file holds a whole JSON document
Loadable(file) == file.exists /\ ~file.partial

\* ledger.py:208, 300, 327
IsErasure(block) == block.data.type = "erasure_certificate"

\* the same with a block kept when any one filter is met
MatchesAnyFilter(block, certificate_id, serial_number, certificate_hash) ==
  /\ IsErasure(block)
  /\ \/ certificate_id # << >> /\ block.data.certificate_id = certificate_id
     \/ serial_number # 0 /\ block.data.device_serial = serial_number
     \/ /\ certificate_hash # << >>
        /\ block.data.certificate_hash = certificate_hash
     \/ certificate_id = << >> /\ serial_number = 0 /\ certificate_hash = << >>

\* ledger.py:208-220; a filter that is None or '' (<< >>, 0 for a serial) is
\* falsy and constrains nothing
Matches(block, certificate_id, serial_number, certificate_hash) ==
  /\ IsErasure(block)
  /\ ~(certificate_id # << >> /\ block.data.certificate_id # certificate_id)
  /\ ~(serial_number # 0 /\ block.data.device_serial # serial_number)
  /\ ~(/\ certificate_hash # << >>
       /\ block.data.certificate_hash # certificate_hash)

\* ledger.py:205-223
matching_blocks(blocks, certificate_id, serial_number, certificate_hash) ==
  SelectSeq(blocks,
            LAMBDA block : Matches(block, certificate_id, serial_number,
                                   certificate_hash))

\* matching_blocks[0]
FirstMatch(matching) == matching[1]

\* ledger.py:227 matching_blocks[-1]
LastMatch(matching) == matching[Len(matching)]

\* the status of a block whose own hash is right
StatusOfIntegrity(integrity_valid, chain_valid) ==
  IF integrity_valid THEN "VALID" ELSE "INVALID"

\* ledger.py:246
VerificationStatus(integrity_valid, chain_valid) ==
  IF integrity_valid /\ chain_valid THEN "VALID" ELSE "INVALID"

\* a failed read reported as no match
ErrorAsNotFound == [found |-> FALSE, verification_status |-> "NOT_FOUND"]

\* ledger.py:256-261, the result of the except branch
VerifyError == [found |-> FALSE, verification_status |-> "ERROR"]

\* ledger.py:197-261, on the file as it is when the call reads it
_verify_local_certificate(file, certificate_id, serial_number, certificate_hash) ==
  IF ~Loadable(file)
    THEN VerifyError
    ELSE LET matching == matching_blocks(file.blocks, certificate_id,
                                         serial_number, certificate_hash)
             block == LastMatch(matching)
             integrity_valid == block.block_hash = _calculate_block_hash(block)
             chain_valid == _verify_chain_integrity(file.blocks,
                                                    block.block_index)
         IN IF matching # << >>
              THEN [found |-> TRUE,
                    integrity_valid |-> integrity_valid,
                    chain_valid |-> chain_valid,
                    block_index |-> block.block_index,
                    block_hash |-> block.block_hash,
                    timestamp |-> block.timestamp,
                    certificate_data |-> block.data,
                    verification_status |->
                      VerificationStatus(integrity_valid, chain_valid)]
              ELSE [found |-> FALSE, verification_status |-> "NOT_FOUND"]

\* ledger.py:292-311
get_ledger_stats(file) ==
  IF ~Loadable(file)
    THEN [error |-> TRUE]
    ELSE [error |-> FALSE,
          total_blocks |-> Len(file.blocks),
          erasure_records |-> Len(SelectSeq(file.blocks, IsErasure)),
          last_block_time |-> IF file.blocks # << >>
                                THEN file.blocks[Len(file.blocks)].timestamp
                                ELSE None,
          chain_valid |-> _verify_chain_integrity(file.blocks,
                                                  Len(file.blocks) - 1)]

\* ledger.py:329-336
SearchRecord(block) ==
  [block_index |-> block.block_index,
   timestamp |-> block.timestamp,
   certificate_id |-> block.data.certificate_id,
   certificate_hash |-> block.data.certificate_hash,
   wipe_method |-> block.data.wipe_method,
   wipe_status |-> block.data.wipe_status]

\* ledger.py:315-340
search_by_serial(file, serial_number) ==
  IF ~Loadable(file)
    THEN << >>
    ELSE LET found == SelectSeq(file.blocks,
                                LAMBDA block :
                                  /\ IsErasure(block)
                                  /\ block.data.device_serial = serial_number)
         IN [i \in 1..Len(found) |-> SearchRecord(found[i])]

\* the filters of the requests: unset, or the value of a certificate that may
\* be on the ledger; ZeroHash is the hash of no certificate
FilterIds ==
  {<< >>} \cup {_generate_cert_id(DeviceInfo(w), WipeReport(w), 0) : w \in WipeIds}

FilterSerials == {0} \cup {DeviceInfo(w).serial : w \in WipeIds}

FilterHashes ==
  {<< >>, ZeroHash,
   generate_certificate(WipeReport(1), DeviceInfo(1), 0).certificate_hash}

\* ledger.py:180-193 and 197-261: the whole call, under ledger_lock
verify_certificate ==
  /\ ledger_file.exists
  /\ LockFree(ledger_lock)
  /\ \E certificate_id \in FilterIds, serial_number \in FilterSerials,
        certificate_hash \in FilterHashes :
       audit' = [op |-> "verify",
                 certificate_id |-> certificate_id,
                 serial_number |-> serial_number,
                 certificate_hash |-> certificate_hash,
                 result |-> _verify_local_certificate(ledger_file,
                                                      certificate_id,
                                                      serial_number,
                                                      certificate_hash)]
  /\ UNCHANGED <<now, wipe_vars, ledger_file, ledger_lock, cert_pc, cert_req,
                 temp_cert, loc_ledger, ledger_entry, certificate_data>>

\* ledger.py:292-311: the whole call; ledger_lock is not taken
LedgerStats ==
  /\ ledger_file.exists
  /\ audit' = [op |-> "stats", result |-> get_ledger_stats(ledger_file)]
  /\ UNCHANGED <<now, wipe_vars, ledger_file, ledger_lock, cert_pc, cert_req,
                 temp_cert, loc_ledger, ledger_entry, certificate_data>>

\* ledger.py:315-340: the whole call, under ledger_lock
SearchBySerial ==
  /\ ledger_file.exists
  /\ LockFree(ledger_lock)
  /\ \E serial_number \in FilterSerials :
       audit' = [op |-> "search",
                 serial_number |-> serial_number,
                 result |-> search_by_serial(ledger_file, serial_number)]
  /\ UNCHANGED <<now, wipe_vars, ledger_file, ledger_lock, cert_pc, cert_req,
                 temp_cert, loc_ledger, ledger_entry, certificate_data>>

\* ledger.py:342-354: the whole call, under ledger_lock; json.load raises on
\* a file that is not a whole document and no export is written
export_ledger ==
  /\ ledger_file.exists
  /\ LockFree(ledger_lock)
  /\ audit' = [op |-> "export",
               result |-> IF Loadable(ledger_file)
                            THEN [exported |-> TRUE,
                                  blocks |-> ledger_file.blocks]
                            ELSE [exported |-> FALSE]]
  /\ UNCHANGED <<now, wipe_vars, ledger_file, ledger_lock, cert_pc, cert_req,
                 temp_cert, loc_ledger, ledger_entry, certificate_data>>

\* certificate requests and calls that read the ledger
ReadNext ==
  \/ LedgerNext
  \/ verify_certificate
  \/ LedgerStats
  \/ SearchBySerial
  \/ export_ledger

\* ----------------------------------------------------- ledgers at start-up
\* a stored block with its payload or its previous_hash altered and its
\* block_hash left as it was
Altered(block) ==
  {[block EXCEPT !.previous_hash = <<1>> \o @]}
  \cup (IF block.data.type = "genesis"
          THEN {[block EXCEPT !.data.message = "altered"]}
          ELSE {[block EXCEPT !.data.device_serial = @ + 1],
                [block EXCEPT !.data.wipe_status = "failed"]})

\* ledger.py:82-135 with app.py:172-175: the ledgers one recorded certificate
\* request leaves from the ledger blocks, the request served at one instant
\* not before the last block
Extended(blocks) ==
  {Append(blocks,
          NewBlock(blocks,
                   generate_certificate(WipeReport(w), DeviceInfo(w), t),
                   WipeReport(w), DeviceInfo(w), t, t)) :
     w \in WipeIds, t \in blocks[Len(blocks)].timestamp..MaxClock}

\* the ledgers the code has written after n recorded certificate requests
RECURSIVE Written(_)
Written(n) ==
  IF n = 0 THEN {<<_create_genesis_block(0)>>}
  ELSE UNION {Extended(blocks) : blocks \in Written(n - 1)}

\* a written ledger with one block altered in the file
AlteredIn(blocks) ==
  UNION {{[blocks EXCEPT ![k] = a] : a \in Altered(blocks[k])} :
           k \in 1..Len(blocks)}

\* the ledger files the server can find when it starts: none, one the code
\* wrote, or one altered in a single block since
FoundAtStart ==
  LET written == UNION {Written(n) : n \in 0..MaxAppended}
  IN {[exists |-> FALSE, partial |-> FALSE, blocks |-> << >>]}
     \cup {[exists |-> TRUE, partial |-> FALSE, blocks |-> blocks] :
             blocks \in written \cup UNION {AlteredIn(b) : b \in written}}

\* app.py:22 with ledger.py:18-46: the server starts and LedgerService() runs
\* _initialize_local_ledger on the directory as it finds it
Restart ==
  /\ \A c \in Callers : cert_pc[c] \in {"idle", "done"}
  /\ InitialiseFile
  /\ audit' = [op |-> "init", existed |-> ledger_file.exists]
  /\ UNCHANGED <<wipe_vars, ledger_lock, cert_pc, cert_req, temp_cert,
                 loc_ledger, ledger_entry, certificate_data>>

\* the server started on a ledger directory, and calls that read the ledger
AuditNext ==
  \/ Restart
  \/ verify_certificate
  \/ LedgerStats
  \/ SearchBySerial
  \/ export_ledger

\* a request whose filters all count as given
SomeFilterAlways(certificate_id, serial_number, certificate_hash) == FALSE

\* app.py:277 not any([certificate_id, serial_number, certificate_hash])
NoFilter(certificate_id, serial_number, certificate_hash) ==
  certificate_id = << >> /\ serial_number = 0 /\ certificate_hash = << >>

\* app.py:268-292, POST /api/verify/certificate: the whole handler, with the
\* call of LedgerService.verify_certificate it makes
VerifyRequest ==
  /\ ledger_file.exists
  /\ \E certificate_id \in FilterIds, serial_number \in FilterSerials,
        certificate_hash \in FilterHashes :
       LET query == [op |-> "verify_request",
                     certificate_id |-> certificate_id,
                     serial_number |-> serial_number,
                     certificate_hash |-> certificate_hash]
       IN IF NoFilter(certificate_id, serial_number, certificate_hash)
            THEN audit' = query @@ [code |-> 400, success |-> FALSE]
            ELSE /\ LockFree(ledger_lock)
                 /\ audit' = query @@
                      [code |-> 200, success |-> TRUE,
                       verification |->
                         _verify_local_certificate(ledger_file, certificate_id,
                                                   serial_number,
                                                   certificate_hash)]
  /\ UNCHANGED <<now, wipe_vars, ledger_file, ledger_lock, cert_pc, cert_req,
                 temp_cert, loc_ledger, ledger_entry, certificate_data>>

\* the server started on a ledger directory, and verify requests
RequestNext ==
  \/ Restart
  \/ VerifyRequest

\* a ledger file that is not a whole JSON document: the write-back of an
\* append (ledger.py:123-124) was cut short when the server stopped
CutShort == [exists |-> TRUE, partial |-> TRUE, blocks |-> << >>]

\* --------------------------------------------------------------- wipe jobs
\* wipe_id None (start_wipe refused) and no record handed out
NoId == [time |-> None, path |-> "None"]

\* device_path.replace('/', '_')
ReplaceSlashes(device_path) ==
  CASE device_path = "/dev/sda" -> "_dev_sda"
    [] device_path = "/dev/sdb" -> "_dev_sdb"
    [] device_path = "/dev/sd/a" -> "_dev_sd_a"
    [] device_path = "/dev/sd_a" -> "_dev_sd_a"
    [] OTHER -> device_path

\* a call start_wipe(device_path, simulated=simulated)
Request(device_path, simulated) ==
  [device_path |-> device_path, simulated |-> simulated]

\* the calls of start_wipe the requests make: one disk is wiped in simulated
\* mode, the other with the erasure tool
Requests == {Request("/dev/sda", TRUE), Request("/dev/sdb", FALSE)}

\* wipe_service.py:185
WipeId(t, device_path) == [time |-> t, path |-> ReplaceSlashes(device_path)]

\* wipe_service.py:269-277
method_map(method) ==
  CASE method = "dodshort" -> "dod522022m"
    [] method = "dod" -> "dodshort"
    [] method = "gutmann" -> "gutmann"
    [] method = "random" -> "prng"
    [] method = "zero" -> "zero"
    [] OTHER -> "dodshort"

\* wipe_service.py:223-242, each message as the pieces it is formatted from
stages(device_path, method) ==
  << <<"Initializing wipe operation...">>,
     <<"Target device: ", device_path>>,
     <<"Method: ", method>>,
     <<"Starting erasure process...">>,
     <<"Pass 1/3: Writing random data...">>,
     <<"Progress:", " 10%">>,
     <<"Progress:", " 25%">>,
     <<"Progress:", " 40%">>,
     <<"Pass 2/3: Writing zeros...">>,
     <<"Progress:", " 50%">>,
     <<"Progress:", " 65%">>,
     <<"Progress:", " 75%">>,
     <<"Pass 3/3: Verification...">>,
     <<"Progress:", " 85%">>,
     <<"Progress:", " 95%">>,
     <<"Progress:", " 100%">>,
     <<"Wipe completed successfully!">>,
     <<"Device ", device_path, " has been securely erased.">> >>

\* int(text.strip().rstrip('%'))
PercentValue(text) ==
  CASE text = " 10%" -> 10
    [] text = " 25%" -> 25
    [] text = " 40%" -> 40
    [] text = " 50%" -> 50
    [] text = " 65%" -> 65
    [] text = " 75%" -> 75
    [] text = " 85%" -> 85
    [] text = " 95%" -> 95
    [] text = " 100%" -> 100
    [] OTHER -> 0

\* wipe_service.py:248-254, the progress of stage i (0-based) out of n
StageProgress(i, log, n) ==
  IF log[1] = "Progress:" THEN PercentValue(log[2])
  ELSE IF i = n - 1 THEN 100
  ELSE (i * 100) \div n

\* what the erasure tool may print before it exits: its stdout, line by line
ToolOutputs ==
  {<< >>, <<"Wiping 50%\n", "  Pass 1 of 3\n">>, <<"\n", "Wiping 120%\n">>}

\* wipe_service.py:302 line.strip()
strip(line) ==
  CASE line = "Wiping 50%\n" -> "Wiping 50%"
    [] line = "  Pass 1 of 3\n" -> "Pass 1 of 3"
    [] line = "\n" -> ""
    [] line = "Wiping 120%\n" -> "Wiping 120%"
    [] OTHER -> line

\* the same with progress 0 for a line without a percentage
ParseOrZero(line) ==
  CASE line = "Wiping 50%" -> 50
    [] line = "Wiping 120%" -> 120
    [] OTHER -> 0

\* wipe_service.py:327-333
_parse_nwipe_progress(line) ==
  CASE line = "Wiping 50%" -> 50
    [] line = "Wiping 120%" -> 120
    [] OTHER -> None

\* the arguments of one _update_wipe_status call; no log is << >>, no error ""
Update(status, progress, log, error) ==
  [status |-> status, progress |-> progress, log |-> log, error |-> error]

NoUpdate == Update("", None, << >>, "")

\* wipe_service.py:339-354, the writes one call makes, in order
Fields(upd) ==
  <<"status">>
  \o (IF upd.progress # None THEN <<"progress">> ELSE << >>)
  \o (IF upd.log # << >> THEN <<"log">> ELSE << >>)
  \o (IF upd.error # "" THEN <<"error">> ELSE << >>)
  \o (IF upd.status = "completed" THEN <<"end_time">> ELSE << >>)

IdleWorker == [pc |-> "none", i |-> 0, stdout |-> << >>, upd |-> NoUpdate,
               k |-> 0, cont |-> "none"]

NoArgs == [device_path |-> "", method |-> "", simulated |-> FALSE,
           wipe_id |-> NoId]

NoResult == [wipe_id |-> NoId, error |-> FALSE]

\* no response of /api/wipe/logs yet
NoLogs == [logs |-> << >>, total_count |-> 0, status |-> "", progress |-> 0]

\* the client has not polled yet: its next request carries since = 0
NoLogPoll == [id |-> NoId, since |-> 0, got |-> << >>]

\* wipe_service.py:398 'In progress'
InProgress == -2

\* no report is being built
NoReport == [pc |-> "none", id |-> NoId, status |-> "", end_time |-> None,
             duration |-> InProgress, verification |-> ""]

WipeInit ==
  /\ active_wipes = << >>
  /\ wipe_lock = NoWorker
  /\ start_pc = [s \in Starters |-> "idle"]
  /\ start_args = [s \in Starters |-> NoArgs]
  /\ start_result = [s \in Starters |-> NoResult]
  /\ worker = [s \in Starters |-> IdleWorker]
  /\ poll_ref = NoId
  /\ log_poll = NoLogPoll
  /\ report = NoReport

\* a check that lets every start through
DeviceNeverBusy(wipes, device_path) == FALSE

\* wipe_service.py:188
DeviceBusy(wipes, device_path) ==
  \E id \in DOMAIN wipes : wipes[id].device = device_path

\* threading.Lock: acquire goes through when nobody holds the lock
WipeLockFree(lock) == lock = NoWorker

\* wipe_service.py:176-207, the whole call. The wipe_id is made from a
\* reading t1 of the clock taken before the lock (185), at any moment since
\* the request came in; under the lock, at t2, the device is looked up and the
\* record inserted with that reading as start_time; then the worker thread is
\* started with the arguments of the call. The requests are numbered in the
\* order in which they get the lock.
start_wipe(s, requests) ==
  /\ start_pc[s] = "idle"
  /\ \A r \in Starters : r < s => start_pc[r] # "idle"
  /\ WipeLockFree(wipe_lock)
  /\ \E r \in requests, t2 \in Clock :
       /\ now' = t2
       /\ IF DeviceBusy(active_wipes, r.device_path)
            THEN /\ start_args' = [start_args EXCEPT ![s] =
                                     [device_path |-> r.device_path,
                                      method |-> "dodshort",
                                      simulated |-> r.simulated,
                                      wipe_id |-> NoId]]
                 /\ start_result' = [start_result EXCEPT ![s] =
                                       [wipe_id |-> NoId, error |-> TRUE]]
                 /\ UNCHANGED <<active_wipes, worker, poll_ref>>
            ELSE \E t1 \in 0..t2 :
                   LET wipe_id == WipeId(t1, r.device_path)
                   IN /\ start_args' = [start_args EXCEPT ![s] =
                                          [device_path |-> r.device_path,
                                           method |-> "dodshort",
                                           simulated |-> r.simulated,
                                           wipe_id |-> wipe_id]]
                      /\ active_wipes' =
                           (wipe_id :> [device |-> r.device_path,
                                        status |-> "starting",
                                        progress |-> 0,
                                        method |-> "dodshort",
                                        start_time |-> t2,
                                        logs |-> << >>,
                                        simulated |-> r.simulated])
                           @@ active_wipes
                      /\ poll_ref' = IF poll_ref = wipe_id THEN NoId
                                     ELSE poll_ref
                      /\ worker' = [worker EXCEPT ![s].pc = "begin"]
                      /\ start_result' = [start_result EXCEPT ![s] =
                                            [wipe_id |-> wipe_id,
                                             error |-> FALSE]]
  /\ start_pc' = [start_pc EXCEPT ![s] = "done"]
  /\ UNCHANGED <<ledger_vars, log_poll, report, wipe_lock>>

\* the worker goes on to call _update_wipe_status(upd) and then to cont
Call(w, upd, cont) == [w EXCEPT !.pc = "update", !.upd = upd, !.k = 1,
                                !.cont = cont]

\* the call has returned
Returned(w) == [w EXCEPT !.pc = w.cont, !.upd = NoUpdate, !.k = 0,
                         !.cont = "none"]

\* wipe_service.py:339-354, one write of _update_wipe_status; of a log entry
\* the message is kept
Write(job, field, upd, t) ==
  CASE field = "status" -> [job EXCEPT !.status = upd.status]
    [] field = "progress" -> [job EXCEPT !.progress = upd.progress]
    [] field = "log" -> [job EXCEPT !.logs = Append(@, upd.log)]
    [] field = "error" -> ("error" :> upd.error) @@ job
    [] field = "end_time" -> ("end_time" :> t) @@ job

\* the writes from the k-th on
RECURSIVE WriteFrom(_, _, _, _)
WriteFrom(job, upd, k, t) ==
  IF k > Len(Fields(upd)) THEN job
  ELSE WriteFrom(Write(job, Fields(upd)[k], upd, t), upd, k + 1, t)

\* wipe_service.py:335-354, the table after the call
_update_wipe_status(wipes, wipe_id, upd, t) ==
  IF wipe_id \in DOMAIN wipes
    THEN [wipes EXCEPT ![wipe_id] = WriteFrom(@, upd, 1, t)]
    ELSE wipes

\* The thread launched for s goes on as w2. Threads that take wipe_lock see a
\* call of _update_wipe_status as one step (atomic): the lock is acquired, the
\* record written and the lock released. A thread that reads a record without
\* the lock sees the writes one by one (UpdateWrite below).
Proceed(s, w2, atomic) ==
  IF atomic /\ w2.pc = "update"
    THEN /\ WipeLockFree(wipe_lock)
         /\ \E t \in IF w2.upd.status = "completed" THEN Clock ELSE {now} :
              /\ now' = t
              /\ active_wipes' = _update_wipe_status(active_wipes,
                                                     start_args[s].wipe_id,
                                                     w2.upd, t)
         /\ worker' = [worker EXCEPT ![s] = Returned(w2)]
         /\ UNCHANGED <<ledger_vars, log_poll, report, wipe_lock, start_pc, start_args,
                        start_result, poll_ref>>
    ELSE /\ worker' = [worker EXCEPT ![s] = w2]
         /\ UNCHANGED <<now, ledger_vars, log_poll, report, active_wipes, wipe_lock, start_pc,
                        start_args, start_result, poll_ref>>

\* wipe_service.py:244-256, stage i of the script
SimStage(s, i) ==
  LET log == stages(start_args[s].device_path, start_args[s].method)[i + 1]
      n == Len(stages(start_args[s].device_path, start_args[s].method))
  IN Call([worker[s] EXCEPT !.i = i],
          Update("running", StageProgress(i, log, n), log, ""), "sim_cb")

\* wipe_service.py:209-215 and 266-289: the thread starts; a simulated wipe
\* goes to its first stage, a real one logs the command line
_run_wipe(s, atomic) ==
  /\ worker[s].pc = "begin"
  /\ Proceed(s, IF start_args[s].simulated
                  THEN SimStage(s, 0)
                  ELSE Call(worker[s],
                            Update("running", None,
                                   <<"Executing: sudo nwipe --autonuke --method ",
                                     method_map(start_args[s].method),
                                     " --verify off --nogui ",
                                     start_args[s].device_path>>, ""),
                            "popen"),
             atomic)

\* wipe_service.py:244-264: the callback (if any) returned; next stage, or
\* the job is marked completed
_run_simulated_wipe(s, atomic) ==
  /\ worker[s].pc = "sim_cb"
  /\ Proceed(s, IF worker[s].i + 1
                     < Len(stages(start_args[s].device_path,
                                  start_args[s].method))
                  THEN SimStage(s, worker[s].i + 1)
                  ELSE Call(worker[s], Update("completed", 100, << >>, ""),
                            "sim_done_cb"),
             atomic)

\* wipe_service.py:292-298 and 322-323: subprocess.Popen raises (no sudo, no
\* nwipe)
PopenRaises(s, atomic) ==
  /\ worker[s].pc = "popen"
  /\ Proceed(s, Call(worker[s], Update("failed", None, << >>, "popen error"),
                     "h2_cb"),
             atomic)

\* wipe_service.py:292-298: the tool is started; stdout is what it will print
Popen(s) ==
  /\ worker[s].pc = "popen"
  /\ \E stdout \in ToolOutputs :
       Proceed(s, [worker[s] EXCEPT !.stdout = stdout, !.pc = "stream"], FALSE)

\* wipe_service.py:301-309: the next line of the tool's output
RealLine(s, atomic) ==
  /\ worker[s].pc \in {"stream", "real_cb"}
  /\ worker[s].stdout # << >>
  /\ LET line == strip(Head(worker[s].stdout))
         w == [worker[s] EXCEPT !.stdout = Tail(@)]
     IN Proceed(s, IF line # ""
                     THEN Call(w, Update("running", _parse_nwipe_progress(line),
                                         <<line>>, ""), "real_cb")
                     ELSE [w EXCEPT !.pc = "stream"],
                atomic)

\* wipe_service.py:311-320: the tool's output ends and it exits
RealExit(s, atomic) ==
  /\ worker[s].pc \in {"stream", "real_cb"}
  /\ worker[s].stdout = << >>
  /\ \E returncode \in {0, 1} :
       Proceed(s, IF returncode = 0
                    THEN Call(worker[s], Update("completed", 100, << >>, ""),
                              "real_done_cb")
                    ELSE Call(worker[s], Update("failed", None, << >>,
                                                "nwipe exited with error"),
                              "real_fail_cb"),
               atomic)

\* a callback was passed to start_wipe and it raises: wipe_service.py:322-325
\* catches what happens inside the try of a real wipe, 216-219 what a
\* simulated wipe or the handler at 322-325 lets through; after the update at
\* 217 the thread ends, whether the callback at 219 raises or returns
CallbackRaises(s, atomic) ==
  /\ worker[s].pc \in {"sim_cb", "sim_done_cb", "real_cb", "real_done_cb",
                       "real_fail_cb", "h2_cb"}
  /\ Proceed(s, IF worker[s].pc \in {"real_cb", "real_done_cb", "real_fail_cb"}
                  THEN Call(worker[s],
                            Update("failed", None, << >>, "callback error"),
                            "h2_cb")
                  ELSE Call(worker[s],
                            Update("failed", None, << >>, "callback error"),
                            "exit"),
             atomic)

\* the last callback (if any) returned and the thread ends
WorkerReturn(s) ==
  /\ worker[s].pc \in {"sim_done_cb", "real_done_cb", "real_fail_cb", "h2_cb"}
  /\ Proceed(s, [worker[s] EXCEPT !.pc = "exit"], FALSE)

\* wipe_service.py:337-354, write by write: the first one follows the acquire
\* of wipe_lock, the last one is followed by its release
UpdateWrite(s) ==
  LET w == worker[s]
      id == start_args[s].wipe_id
      field == Fields(w.upd)[w.k]
  IN /\ w.pc = "update"
     /\ IF w.k = 1 THEN WipeLockFree(wipe_lock) ELSE wipe_lock = s
     /\ \E t \in IF field = "end_time" THEN Clock ELSE {now} :
          /\ now' = t
          /\ active_wipes' =
               IF id \in DOMAIN active_wipes
                 THEN [active_wipes EXCEPT ![id] = Write(@, field, w.upd, t)]
                 ELSE active_wipes
     /\ IF w.k = Len(Fields(w.upd))
          THEN /\ wipe_lock' = NoWorker
               /\ worker' = [worker EXCEPT ![s] = Returned(w)]
          ELSE /\ wipe_lock' = s
               /\ worker' = [worker EXCEPT ![s].k = w.k + 1]
     /\ UNCHANGED <<ledger_vars, log_poll, report, start_pc, start_args, start_result, poll_ref>>

\* wipe_service.py:356-359: under the lock, the record itself is handed out
get_wipe_status ==
  /\ poll_ref = NoId
  /\ WipeLockFree(wipe_lock)
  /\ \E id \in DOMAIN active_wipes : poll_ref' = id
  /\ UNCHANGED <<now, ledger_vars, log_poll, report, active_wipes, wipe_lock, start_pc,
                 start_args, start_result, worker>>

\* app.py:101-104: the response has been written from the record
StatusSent ==
  /\ poll_ref # NoId
  /\ poll_ref' = NoId
  /\ UNCHANGED <<now, ledger_vars, log_poll, report, active_wipes, wipe_lock, start_pc,
                 start_args, start_result, worker>>

\* logs[since_index:], Python slicing with since_index >= 0
PySuffix(logs, since_index) ==
  IF since_index >= Len(logs) THEN << >>
  ELSE SubSeq(logs, since_index + 1, Len(logs))

\* wipe_service.py:361-372
get_wipe_logs(wipes, wipe_id, since_index) ==
  IF wipe_id \in DOMAIN wipes
    THEN [logs |-> PySuffix(wipes[wipe_id].logs, since_index),
          total_count |-> Len(wipes[wipe_id].logs),
          status |-> wipes[wipe_id].status,
          progress |-> wipes[wipe_id].progress]
    ELSE NoLogs

\* app.py:106-125, GET /api/wipe/logs/<wipe_id>?since=K answered under
\* wipe_lock: the client picks a job at its first request, appends the lines
\* of each response to those it has and asks again from total_count on
PollLogs ==
  /\ WipeLockFree(wipe_lock)
  /\ \E id \in IF log_poll.id = NoId THEN DOMAIN active_wipes
                 ELSE {log_poll.id} \cap DOMAIN active_wipes :
       LET response == get_wipe_logs(active_wipes, id, log_poll.since)
       IN log_poll' = [id |-> id,
                       since |-> response.total_count,
                       got |-> log_poll.got \o response.logs]
  /\ UNCHANGED <<now, ledger_vars, active_wipes, wipe_lock, start_pc,
                 start_args, start_result, worker, poll_ref, report>>

\* what a step of get_wipe_report leaves alone
ReportFrame ==
  UNCHANGED <<now, ledger_vars, log_poll, active_wipes, wipe_lock, start_pc,
              start_args, start_result, worker, poll_ref>>

\* wipe_service.py:376, 356-359: get_wipe_status hands the record of the job
\* to get_wipe_report, under the lock
ReportBegin ==
  /\ report.pc \in {"none", "built"}
  /\ WipeLockFree(wipe_lock)
  /\ \E id \in DOMAIN active_wipes :
       report' = [NoReport EXCEPT !.pc = "status", !.id = id]
  /\ ReportFrame

\* wipe_service.py:385 'status': wipe_data['status']
ReportStatus ==
  /\ report.pc = "status"
  /\ report' = [report EXCEPT !.status = active_wipes[report.id].status,
                              !.pc = "end_time"]
  /\ ReportFrame

\* wipe_service.py:387 'end_time': wipe_data.get('end_time', 'N/A')
ReportEndTime ==
  /\ report.pc = "end_time"
  /\ LET wipe_data == active_wipes[report.id]
     IN report' = [report EXCEPT
                     !.end_time = IF "end_time" \in DOMAIN wipe_data
                                    THEN wipe_data.end_time ELSE None,
                     !.pc = "duration"]
  /\ ReportFrame

\* wipe_service.py:396-407
_calculate_duration(wipe_data) ==
  IF "end_time" \notin DOMAIN wipe_data
    THEN InProgress
    ELSE wipe_data.end_time - wipe_data.start_time

\* wipe_service.py:388 'duration': self._calculate_duration(wipe_data)
ReportDuration ==
  /\ report.pc = "duration"
  /\ report' = [report EXCEPT
                  !.duration = _calculate_duration(active_wipes[report.id]),
                  !.pc = "verification"]
  /\ ReportFrame

\* wipe_service.py:390 'verification': 'Passed' if wipe_data['status'] ==
\* 'completed' else 'Failed'; the report is returned
ReportVerification ==
  /\ report.pc = "verification"
  /\ report' = [report EXCEPT
                  !.verification =
                    IF active_wipes[report.id].status = "completed"
                      THEN "Passed" ELSE "Failed",
                  !.pc = "built"]
  /\ ReportFrame

\* wipe_service.py:374-394
get_wipe_report ==
  \/ ReportBegin
  \/ ReportStatus
  \/ ReportEndTime
  \/ ReportDuration
  \/ ReportVerification

WipeNext ==
  \E s \in Starters :
    \/ start_wipe(s, Requests)
    \/ _run_wipe(s, TRUE)
    \/ _run_simulated_wipe(s, TRUE)
    \/ PopenRaises(s, TRUE)
    \/ Popen(s)
    \/ RealLine(s, TRUE)
    \/ RealExit(s, TRUE)
    \/ CallbackRaises(s, TRUE)
    \/ WorkerReturn(s)

\* the request and the worker whose record a status request reads
Polled == {1}

\* a job whose report is requested while its worker runs
ReportNext ==
  \/ get_wipe_report
  \/ \E s \in Polled :
       \/ start_wipe(s, Requests)
       \/ _run_wipe(s, FALSE)
       \/ _run_simulated_wipe(s, FALSE)
       \/ PopenRaises(s, FALSE)
       \/ Popen(s)
       \/ RealLine(s, FALSE)
       \/ RealExit(s, FALSE)
       \/ CallbackRaises(s, FALSE)
       \/ WorkerReturn(s)
       \/ UpdateWrite(s)

PollNext ==
  \/ get_wipe_status
  \/ StatusSent
  \/ \E s \in Polled :
       \/ start_wipe(s, Requests)
       \/ _run_wipe(s, FALSE)
       \/ _run_simulated_wipe(s, FALSE)
       \/ PopenRaises(s, FALSE)
       \/ Popen(s)
       \/ RealLine(s, FALSE)
       \/ RealExit(s, FALSE)
       \/ CallbackRaises(s, FALSE)
       \/ WorkerReturn(s)
       \/ UpdateWrite(s)

\* two disks whose paths differ in '/' and '_' only, both wiped with the
\* erasure tool and, as /api/wipe/start has it (app.py:71-76), no callback
ClashRequests == {Request("/dev/sd/a", FALSE), Request("/dev/sd_a", FALSE)}

ClashNext ==
  \/ PollLogs
  \/ \E s \in Starters :
       \/ start_wipe(s, ClashRequests)
       \/ _run_wipe(s, TRUE)
       \/ PopenRaises(s, TRUE)
       \/ Popen(s)
       \/ RealLine(s, TRUE)
       \/ RealExit(s, TRUE)
       \/ WorkerReturn(s)

\* a route that lets every request through
NeverRefused(device_path, confirmation) == FALSE

\* app.py:57 not device_path, app.py:64-65 not data.get('confirmation', False)
Refused(device_path, confirmation) == device_path = "" \/ ~confirmation

\* app.py:58-61, 66-69 and 78-88: the status code of the response
ResponseCode(result) == IF result.error THEN 400 ELSE 200

\* the device paths of the requests; "" stands for a missing or empty one
PostedPaths == {"", "/dev/sda", "/dev/sdb"}

\* app.py:47-88, POST /api/wipe/start: the whole handler, with the call of
\* WipeService.start_wipe it makes once the request is let through
StartRequest(s, device_path, confirmation, simulated) ==
  IF Refused(device_path, confirmation)
    THEN /\ start_pc[s] = "idle"
         /\ \A r \in Starters : r < s => start_pc[r] # "idle"
         /\ start_args' = [start_args EXCEPT ![s] =
                             [device_path |-> device_path,
                              method |-> "dodshort",
                              simulated |-> simulated,
                              wipe_id |-> NoId]]
         /\ start_result' = [start_result EXCEPT ![s] =
                               [wipe_id |-> NoId, error |-> TRUE]]
         /\ start_pc' = [start_pc EXCEPT ![s] = "done"]
         /\ UNCHANGED <<now, ledger_vars, log_poll, report, active_wipes, wipe_lock,
                        worker, poll_ref>>
    ELSE start_wipe(s, {Request(device_path, simulated)})

\* requests to /api/wipe/start and the threads they launch, up to the first
\* update a thread makes
StartNext ==
  \E s \in Starters :
    \/ \E device_path \in PostedPaths, confirmation \in BOOLEAN,
          simulated \in BOOLEAN :
         StartRequest(s, device_path, confirmation, simulated)
    \/ _run_wipe(s, TRUE)

\* the same two disks, one wiped in simulated mode and one with the erasure
\* tool
SimRequests == {Request("/dev/sd/a", TRUE), Request("/dev/sd_a", FALSE)}

\* the thread of a simulated wipe started without callback takes its next step
SimWorker(s) ==
  \/ _run_wipe(s, TRUE)
  \/ _run_simulated_wipe(s, TRUE)
  \/ WorkerReturn(s)

\* the erasure tool is not installed: subprocess.Popen raises
SimNext ==
  \E s \in Starters :
    \/ start_wipe(s, SimRequests)
    \/ SimWorker(s)
    \/ PopenRaises(s, TRUE)

\* ------------------------------------------------------------------- specs
vars == <<now, ledger_vars, wipe_vars>>

Init ==
  /\ now = 0
  /\ LedgerInit
  /\ WipeInit

\* the server starts on the ledger directory as it finds it
AuditInit ==
  /\ now = 0
  /\ ledger_file \in FoundAtStart
  /\ CallersInit
  /\ WipeInit

\* the server starts on the ledger directory as it finds it, the ledger file
\* possibly cut short
FaultInit ==
  /\ now = 0
  /\ ledger_file \in FoundAtStart \cup {CutShort}
  /\ CallersInit
  /\ WipeInit

\* ledger.py:123-124: json.dump raises (the disk is full, say): the with
\* blocks close the file as it is, truncated by open(..., 'w'), and release the
\* lock, and the exception ends the request
DumpFails(c) ==
  /\ cert_pc[c] = "dump"
  /\ ledger_lock' = NoCaller
  /\ cert_pc' = [cert_pc EXCEPT ![c] = "failed"]
  /\ UNCHANGED <<wipe_vars, audit, now, ledger_file, cert_req, temp_cert, loc_ledger,
                 ledger_entry, certificate_data>>

\* ledger.py:86-87: json.load raises on a file that does not parse; the with
\* block releases the lock and the exception ends the request
LoadFails(c) ==
  /\ cert_pc[c] = "load"
  /\ ledger_file.partial
  /\ ledger_lock' = NoCaller
  /\ cert_pc' = [cert_pc EXCEPT ![c] = "failed"]
  /\ UNCHANGED <<wipe_vars, audit, now, ledger_file, cert_req, temp_cert, loc_ledger,
                 ledger_entry, certificate_data>>

\* certificate requests whose write-back can fail
WriteFaultNext ==
  \/ LedgerNext
  \/ \E c \in Callers : DumpFails(c) \/ LoadFails(c)

\* the thread of certificate request c, as a holder of wipe_lock
Requester(c) == NumStarters + c

\* wipe_service.py:358 'with self.wipe_lock' entered by get_wipe_status, which
\* generate_certificate calls through get_wipe_report (app.py:142) and then
\* itself (app.py:150)
LookupAcquire(c, at, to) ==
  /\ cert_pc[c] = at
  /\ at = "idle" => \A d \in Callers : d < c => cert_pc[d] # "idle"
  /\ ledger_file.exists
  /\ WipeLockFree(wipe_lock)
  /\ wipe_lock' = Requester(c)
  /\ cert_pc' = [cert_pc EXCEPT ![c] = to]
  /\ UNCHANGED <<now, ledger_file, ledger_lock, cert_req, temp_cert, loc_ledger,
                 ledger_entry, certificate_data, audit, active_wipes, start_pc,
                 start_args, start_result, worker, poll_ref, log_poll, report>>

\* wipe_service.py:358-359: the record is returned and the with block left
LookupRelease(c, at, to) ==
  /\ cert_pc[c] = at
  /\ wipe_lock = Requester(c)
  /\ wipe_lock' = NoWorker
  /\ cert_pc' = [cert_pc EXCEPT ![c] = to]
  /\ UNCHANGED <<now, ledger_file, ledger_lock, cert_req, temp_cert, loc_ledger,
                 ledger_entry, certificate_data, audit, active_wipes, start_pc,
                 start_args, start_result, worker, poll_ref, log_poll, report>>

\* app.py:127-181, the thread of one certificate request: the two look-ups in
\* the job registry, then the certificate and its append
Certify(c) ==
  \/ LookupAcquire(c, "idle", "report")
  \/ LookupRelease(c, "report", "reported")
  \/ LookupAcquire(c, "reported", "status")
  \/ LookupRelease(c, "status", "looked")
  \/ CertGenerateAt(c, "looked")
  \/ RecordAcquire(c)
  \/ RecordLoad(c)
  \/ LoadFails(c)
  \/ RecordOpen(c)
  \/ RecordDump(c)
  \/ DumpFails(c)
  \/ CertRegenerate(c)

\* the job the lock users work on: the erasure tool is not installed
LockRequests == {Request("/dev/sdb", FALSE)}

\* wipe_service.py:209-325, the thread of a job, write by write
Wipe(s) ==
  \/ _run_wipe(s, FALSE)
  \/ PopenRaises(s, FALSE)
  \/ UpdateWrite(s)
  \/ WorkerReturn(s)

\* the requests that certify while a job runs
Certifiers == {1, 2}

\* every thread that takes wipe_lock or ledger_lock
LockNext ==
  \/ _initialize_local_ledger
  \/ \E c \in Certifiers : Certify(c)
  \/ \E s \in Polled : start_wipe(s, LockRequests) \/ Wipe(s)

\* certificate requests against the ledger
LedgerSpec == Init /\ [][LedgerNext]_vars

\* certificate requests and a wipe job; a started thread goes on running
LockSpec ==
  /\ Init
  /\ [][LockNext]_vars
  /\ \A c \in Certifiers : WF_vars(Certify(c))
  /\ \A s \in Polled : WF_vars(Wipe(s))

\* certificate requests against the ledger, the write-back possibly failing
WriteFaultSpec == Init /\ [][WriteFaultNext]_vars

\* start requests and the workers they launch
WipeSpec == Init /\ [][WipeNext]_vars

\* certificate requests and calls that read the ledger
ReadSpec == Init /\ [][ReadNext]_vars

\* a ledger found at start-up and the calls that read it
AuditSpec == AuditInit /\ [][AuditNext]_vars

\* a ledger found at start-up and verify requests
RequestSpec == AuditInit /\ [][RequestNext]_vars

\* a ledger found at start-up, whole or cut short, and the calls that read it
FaultSpec == FaultInit /\ [][AuditNext]_vars

\* wipes without callback on a machine without the erasure tool; a started
\* thread is scheduled again and again and time.sleep(0.5) returns
SimSpec ==
  Init /\ [][SimNext]_vars /\ \A s \in Starters : WF_vars(SimWorker(s))

\* requests to /api/wipe/start and the threads they launch
StartSpec == Init /\ [][StartNext]_vars

\* one job and a status request reading its record
PollSpec == Init /\ [][PollNext]_vars

\* a wipe job and report requests
ReportSpec == Init /\ [][ReportNext]_vars

\* start requests whose wipe ids can coincide, their workers and a client
\* polling the logs
ClashSpec == Init /\ [][ClashNext]_vars

\* ------------------------------------------------------------------ claims
Stored == ledger_file.exists /\ ~ledger_file.partial

Recorded(c) ==
  /\ cert_req[c].record_on_blockchain
  /\ cert_pc[c] \in {"regenerate", "done"}

InAppend(c) == cert_pc[c] \in {"load", "open", "dump"}

\* C1: after init and any appends, in any interleaving, every block i>0 of the
\* stored ledger has previous_hash equal to the block_hash of block i-1 and a
\* block_hash equal to the hash of its own content, and verify_chain over the
\* whole ledger returns true.
C1_ChainIntact ==
  Stored =>
    LET blocks == ledger_file.blocks
    IN /\ \A i \in 2..Len(blocks) :
            /\ blocks[i].previous_hash = blocks[i - 1].block_hash
            /\ blocks[i].block_hash = _calculate_block_hash(blocks[i])
       /\ _verify_chain_integrity(blocks, Len(blocks) - 1)

C1_Witness ==
  /\ Stored
  /\ Len(ledger_file.blocks) = 3
  /\ \A c \in {1, 2} : Recorded(c)

\* position k (1-based) of the stored ledger replaced by an altered block
Tampered(k) ==
  {[ledger_file.blocks EXCEPT ![k] = a] : a \in Altered(ledger_file.blocks[k])}

\* C2: for every block position k of the stored ledger, genesis included, if
\* the block's payload or previous_hash is altered and its block_hash is not,
\* verify_chain(j) returns false for every index j >= k.
C2_TamperDetected ==
  Stored =>
    \A k \in 1..Len(ledger_file.blocks) :
      \A blocks \in Tampered(k) :
        \A j \in k..Len(blocks) : ~_verify_chain_integrity(blocks, j - 1)

\* what the loop does check: the same for every block after the genesis block
C2_TamperDetectedAfterGenesis ==
  Stored =>
    \A k \in 2..Len(ledger_file.blocks) :
      \A blocks \in Tampered(k) :
        \A j \in k..Len(blocks) : ~_verify_chain_integrity(blocks, j - 1)

\* C3: with M callers recording concurrently at most one of them is inside the
\* read-modify-write section; the stored ledger holds the genesis block and
\* one block per finished append, block_index running 0, 1, 2, ... in stored
\* order, and each finished caller was handed a block of its own.
C3_AppendsSerialised ==
  /\ Cardinality({c \in Callers : InAppend(c)}) <= 1
  /\ \A c \in Callers : InAppend(c) => ledger_lock = c
  /\ Stored =>
       LET blocks == ledger_file.blocks
       IN /\ Len(blocks) = 1 + Cardinality({c \in Callers : Recorded(c)})
          /\ \A i \in 1..Len(blocks) : blocks[i].block_index = i - 1
          /\ \A c \in Callers :
               Recorded(c) =>
                 /\ ledger_entry[c].block_index \in 1..(Len(blocks) - 1)
                 /\ blocks[ledger_entry[c].block_index + 1].block_hash
                      = ledger_entry[c].block_hash
          /\ \A c, d \in Callers :
               Recorded(c) /\ Recorded(d) /\ c # d =>
                 ledger_entry[c].block_index # ledger_entry[d].block_index

C3_Witness ==
  /\ Stored
  /\ \A c \in {1, 2} : Recorded(c) /\ cert_pc[c] = "done"
  /\ {ledger_entry[1].block_index, ledger_entry[2].block_index} = {1, 2}

\* C4: when certify records on the ledger, the certificate_id and the
\* certificate_hash handed back to the caller are the ones stored in the
\* payload of the block that call appended.
C4_ReturnedCertIsRecorded ==
  \A c \in Callers :
    Stored /\ cert_pc[c] = "done" /\ cert_req[c].record_on_blockchain =>
      LET block == ledger_file.blocks[ledger_entry[c].block_index + 1]
      IN /\ block.data.certificate_id = certificate_data[c].certificate_id
         /\ block.data.certificate_hash = certificate_data[c].certificate_hash

\* the records kept for a device, and those among them with a status in sts
JobsOf(wipes, device_path, sts) ==
  {id \in DOMAIN wipes : /\ wipes[id].device = device_path
                         /\ wipes[id].status \in sts}

Active == {"starting", "running"}

Terminal == {"completed", "failed"}

Statuses == Active \cup Terminal

\* the step in which request s calls start_wipe
StartReturns(s) == start_pc[s] = "idle" /\ start_pc'[s] = "done"

\* C5: a start for a device that has a job in starting or running returns a
\* conflict error with no job id, creates no job record and launches no
\* worker; of concurrent starts for one device at most one succeeds, so that
\* at every moment each device has at most one job in starting or running.
C5_OneActiveJobPerDevice ==
  /\ [](\A r \in Requests :
          Cardinality(JobsOf(active_wipes, r.device_path, Active)) <= 1)
  /\ [][\A s \in Starters :
          StartReturns(s)
          /\ JobsOf(active_wipes, start_args'[s].device_path, Active) # {}
          => /\ start_result'[s] = [wipe_id |-> NoId, error |-> TRUE]
             /\ active_wipes' = active_wipes
             /\ worker' = worker]_vars

\* two starts for one device: the first one's job has not begun to run when
\* the second is refused
C5_Witness ==
  /\ \E s \in Starters : start_pc[s] = "done" /\ start_result[s].error
  /\ \E s \in Starters :
       /\ start_pc[s] = "done"
       /\ ~start_result[s].error
       /\ DOMAIN active_wipes = {start_result[s].wipe_id}
       /\ active_wipes[start_result[s].wipe_id].status = "starting"
       /\ worker[s].pc = "begin"

\* C6: after a device's job has reached completed or failed, a new start for
\* the same device succeeds: it returns a job id and creates a new record in
\* status starting.
C6_StartAfterTerminal ==
  [][\A s \in Starters :
       StartReturns(s)
       /\ JobsOf(active_wipes, start_args'[s].device_path, Statuses) # {}
       /\ JobsOf(active_wipes, start_args'[s].device_path, Active) = {}
       => /\ ~start_result'[s].error
          /\ start_result'[s].wipe_id \in DOMAIN active_wipes'
          /\ active_wipes'[start_result'[s].wipe_id].status = "starting"]_vars

\* the moves of a job's status
StatusMoves ==
  {<<"starting", "running">>, <<"running", "completed">>,
   <<"running", "failed">>}

\* C7: whatever the execution (simulated or real, callback or none, raising
\* or not), the status of a job only moves starting -> running -> completed
\* or starting -> running -> failed, and a status completed or failed never
\* changes again.
C7_StatusMoves ==
  [][\A id \in DOMAIN active_wipes :
       start_pc' = start_pc /\ id \in DOMAIN active_wipes'
       => \/ active_wipes'[id].status = active_wipes[id].status
          \/ <<active_wipes[id].status, active_wipes'[id].status>>
               \in StatusMoves]_vars

\* C8: a job that ends in failure (the tool exits non-zero, or a fault is
\* raised while it runs) has status failed, a recorded error and end_time set.
C8_FailedHasErrorAndEndTime ==
  \A id \in DOMAIN active_wipes :
    active_wipes[id].status = "failed"
    => {"error", "end_time"} \subseteq DOMAIN active_wipes[id]

\* C9: a job whose status is completed has progress 100 and end_time set, and
\* no status request can observe status completed with progress below 100 or
\* without end_time in the record it was handed.
C9_CompletedSeenWhole ==
  \A id \in DOMAIN active_wipes :
    (wipe_lock = NoWorker \/ id = poll_ref)
    /\ active_wipes[id].status = "completed"
    => /\ active_wipes[id].progress = 100
       /\ "end_time" \in DOMAIN active_wipes[id]

\* C10: the progress of a job run in simulated mode never decreases: every
\* update of its worker leaves progress at or above its previous value, from
\* creation through completion.
C10_SimulatedProgressGrows ==
  [][\A id \in DOMAIN active_wipes :
       start_pc' = start_pc
       /\ id \in DOMAIN active_wipes'
       /\ active_wipes[id].simulated
       => active_wipes'[id].progress >= active_wipes[id].progress]_vars

\* a call that reads the ledger returns: it is the call audit then holds
Reads == audit' # audit

\* C14: no read of the ledger (verify, stats, search, export) sees the file
\* between the start and the end of an append's write-back: the file a read
\* loads is a whole ledger, the one before the append or the one after it
C14_ReadsSeeWholeLedger == [][Reads => Loadable(ledger_file)]_vars

\* C11: in every reachable state the progress of every job is an integer in
\* 0..100, whatever the erasure tool prints during a real execution, lines
\* with a percentage above 100 included.
C11_ProgressInRange ==
  \A id \in DOMAIN active_wipes : active_wipes[id].progress \in 0..100

\* the job the client polls is in the registry
Polling == log_poll.id \in DOMAIN active_wipes

\* C12: a client that starts with since = 0 and polls the logs of a job again
\* and again from the total_count of the previous response, while the worker
\* appends, has by concatenation exactly the job's log sequence in order, no
\* line twice and none missing; each response carries total_count - since
\* lines when 0 <= since <= total_count.
C12_PolledLogsAreTheLogs ==
  /\ [](Polling =>
          /\ log_poll.since <= Len(active_wipes[log_poll.id].logs)
          /\ log_poll.got = SubSeq(active_wipes[log_poll.id].logs, 1,
                                   log_poll.since))
  /\ [][log_poll' # log_poll /\ log_poll.since <= log_poll'.since
        => Len(log_poll'.got) - Len(log_poll.got)
             = log_poll'.since - log_poll.since]_vars

\* C13: the logs of a job only grow: every operation leaves the previous log
\* sequence as a prefix of the new one, no entry removed, reordered or
\* rewritten, the entries in the order the worker produced them.
C13_LogsOnlyGrow ==
  [][\A id \in DOMAIN active_wipes :
       /\ id \in DOMAIN active_wipes'
       /\ Len(active_wipes[id].logs) <= Len(active_wipes'[id].logs)
       /\ active_wipes[id].logs
            = SubSeq(active_wipes'[id].logs, 1, Len(active_wipes[id].logs))]_vars

\* the call audit holds after the step is a call of op that the step made
Returns(op) == Reads /\ audit'.op = op

\* query f selects the block: an erasure certificate block whose payload has
\* the value of every filter f provides
Meets(block, f) ==
  /\ block.data.type = "erasure_certificate"
  /\ f.certificate_id # << >> => block.data.certificate_id = f.certificate_id
  /\ f.serial_number # 0 => block.data.device_serial = f.serial_number
  /\ f.certificate_hash # << >> =>
       block.data.certificate_hash = f.certificate_hash

\* the positions in the file of the blocks query f selects
MeetingAt(blocks, f) == {i \in 1..Len(blocks) : Meets(blocks[i], f)}

\* the last of a non-empty set of positions
LastOf(at) == CHOOSE i \in at : \A j \in at : j <= i

\* C15: when several blocks of the ledger match the filters of a verify call,
\* the call reports the matching block with the highest index, the one
\* appended last.
C15_VerifyReportsLastMatch ==
  [][Returns("verify") /\ audit'.result.found =>
       LET blocks == ledger_file.blocks
           at == MeetingAt(blocks, audit')
           result == audit'.result
       IN /\ at # {}
          /\ result.block_index = blocks[LastOf(at)].block_index
          /\ result.block_hash = blocks[LastOf(at)].block_hash
          /\ result.certificate_data = blocks[LastOf(at)].data
          /\ \A i \in at : blocks[i].block_index <= result.block_index]_vars

\* a verify by certificate_id on a ledger with two blocks of that id
C15_Witness ==
  /\ audit.op = "verify"
  /\ audit.certificate_id # << >>
  /\ Cardinality(MeetingAt(ledger_file.blocks, audit)) > 1
  /\ audit.result.found
  /\ audit.result.block_index = 2

\* C16: verify returns NOT_FOUND with found false exactly when no erasure
\* certificate block matches the filters; when a block matches it returns
\* found true, integrity_valid telling whether the recomputed hash of the
\* selected block is its stored hash, chain_valid the result of verify_chain up
\* to that block's index, and VALID exactly when both hold, INVALID otherwise.
C16_VerifyStatus ==
  [][Returns("verify") =>
       LET blocks == ledger_file.blocks
           at == MeetingAt(blocks, audit')
           result == audit'.result
           block == blocks[LastOf(at)]
           integrity == block.block_hash = _calculate_block_hash(block)
           chain == _verify_chain_integrity(blocks, block.block_index)
       IN IF at = {}
            THEN ~result.found /\ result.verification_status = "NOT_FOUND"
            ELSE /\ result.found
                 /\ result.integrity_valid = integrity
                 /\ result.chain_valid = chain
                 /\ result.verification_status =
                      IF integrity /\ chain THEN "VALID" ELSE "INVALID"]_vars

\* a verify that selects a block whose own hash is right, after a block that
\* was altered
C16_Witness ==
  /\ audit.op = "verify"
  /\ audit.result.found
  /\ audit.result.integrity_valid
  /\ ~audit.result.chain_valid
  /\ audit.result.verification_status = "INVALID"

\* C17: a block matches a verify query exactly when it is an erasure
\* certificate block and every filter provided (certificate_id, device serial,
\* certificate_hash) equals the block's payload field; an unset filter
\* constrains nothing and the genesis block never matches.
C17_MatchPredicate ==
  [][Returns("verify") =>
       LET blocks == ledger_file.blocks
           f == audit'
       IN /\ matching_blocks(blocks, f.certificate_id, f.serial_number,
                             f.certificate_hash)
               = SelectSeq(blocks, LAMBDA block : Meets(block, f))
          /\ f.result.found = (MeetingAt(blocks, f) # {})
          /\ blocks[1].data.type = "genesis" => 1 \notin MeetingAt(blocks, f)]_vars

\* a verify with two filters, one of them met by a block and the other by no
\* block: nothing is found
C17_Witness ==
  /\ audit.op = "verify"
  /\ audit.certificate_id # << >>
  /\ audit.certificate_hash # << >>
  /\ \E i \in 2..Len(ledger_file.blocks) :
       ledger_file.blocks[i].data.certificate_id = audit.certificate_id
  /\ ~audit.result.found

\* every block of positions 0..up_to_index has the hash of its content, and
\* every one after the first the hash of the block before it
SoundUpTo(blocks, up_to_index) ==
  /\ \A i \in 0..up_to_index :
       blocks[i + 1].block_hash = _calculate_block_hash(blocks[i + 1])
  /\ \A i \in 1..up_to_index :
       blocks[i + 1].previous_hash = blocks[i].block_hash

\* C18: verify_chain(up_to_index) is true exactly when every block of
\* 0..up_to_index has the recomputed hash of its content as block_hash and
\* every block after the first in that range has the block_hash of the block
\* before it as previous_hash, whatever the blocks after up_to_index are; so
\* for the chain_valid of a stats call (up to the last block) and of a verify
\* call (up to the selected block).
C18_VerifyChainExact ==
  [][/\ Returns("stats") /\ ~audit'.result.error =>
          audit'.result.chain_valid
            = SoundUpTo(ledger_file.blocks, Len(ledger_file.blocks) - 1)
     /\ Returns("verify") /\ audit'.result.found =>
          audit'.result.chain_valid
            = SoundUpTo(ledger_file.blocks, audit'.result.block_index)]_vars

\* C19: a freshly initialised ledger has exactly one block, with index 0,
\* previous_hash the 64 zeros, no transaction_id, and a block_hash that is the
\* recomputed hash of its content.
C19_FreshLedger ==
  [][~ledger_file.exists /\ ledger_file'.exists =>
       LET blocks == ledger_file'.blocks
       IN /\ ~ledger_file'.partial
          /\ Len(blocks) = 1
          /\ blocks[1].block_index = 0
          /\ blocks[1].previous_hash = [i \in 1..HashWidth |-> 0]
          /\ "transaction_id" \notin DOMAIN blocks[1]
          /\ blocks[1].block_hash = _calculate_block_hash(blocks[1])]_vars

\* the ledger right after the first start, before any request
C19_Witness ==
  /\ Stored
  /\ Len(ledger_file.blocks) = 1
  /\ \A c \in Callers : cert_pc[c] = "idle"

\* C20: init on a ledger that exists, with any number of blocks, leaves the
\* stored ledger exactly as it was.
C20_InitIdempotent ==
  [][Returns("init") /\ ledger_file.exists => ledger_file' = ledger_file]_vars

\* init has run on a ledger with appended blocks
C20_Witness ==
  /\ audit.op = "init"
  /\ audit.existed
  /\ Len(ledger_file.blocks) > 1

\* request c has returned
Served(c) == cert_pc[c] = "done"

\* C21: every certificate request makes exactly one ledger append when
\* recording is requested and none when it is not: the stored ledger holds
\* the genesis block and one block for each recording request whose append
\* has returned, and a request that does not record leaves the file alone.
C21_OneAppendPerRecordingCall ==
  /\ [](Stored =>
          Len(ledger_file.blocks)
            = 1 + Cardinality({c \in Callers : Recorded(c)}))
  /\ [][\A c \in Callers :
           ~Served(c) /\ Served(c)' /\ ~cert_req'[c].record_on_blockchain =>
             ledger_file' = ledger_file]_vars

\* two requests have returned, one recording and one not: one block was added
C21_Witness ==
  /\ Stored
  /\ \A c \in {1, 2} : Served(c)
  /\ cert_req[1].record_on_blockchain
  /\ ~cert_req[2].record_on_blockchain
  /\ Len(ledger_file.blocks) = 2

\* blocks, and after them one more block
OneMoreThan(blocks, longer) ==
  /\ Len(longer) = Len(blocks) + 1
  /\ SubSeq(longer, 1, Len(blocks)) = blocks

C23_VerifyNeedsAFilter ==
  [][(/\ Returns("verify_request")
      /\ audit'.certificate_id = << >>
      /\ audit'.serial_number = 0
      /\ audit'.certificate_hash = << >>) =>
       /\ audit'.code = 400
       /\ ~audit'.success
       /\ "verification" \notin DOMAIN audit']_vars

\* a request without filters was rejected on a ledger that holds certificates
C23_Witness ==
  /\ audit.op = "verify_request"
  /\ audit.certificate_id = << >>
  /\ audit.serial_number = 0
  /\ audit.certificate_hash = << >>
  /\ audit.code = 400
  /\ \E i \in 1..Len(ledger_file.blocks) : IsErasure(ledger_file.blocks[i])

\* C24: when reading or parsing the ledger fails during verify, verify
\* returns a result with status ERROR and found false, the ledger lock is
\* free afterwards and the stored ledger is unchanged; verify writes nothing
\* on any path.
C24_VerifyReadFault ==
  [][Returns("verify") =>
       /\ ledger_file' = ledger_file
       /\ ledger_lock' = NoCaller
       /\ ~Loadable(ledger_file) =>
            /\ ~audit'.result.found
            /\ audit'.result.verification_status = "ERROR"]_vars

\* a verify on a ledger file that was cut short
C24_Witness ==
  /\ audit.op = "verify"
  /\ ledger_file.partial
  /\ audit.result.verification_status = "ERROR"

\* the job request s started: its worker runs
Started(s) == start_args[s].wipe_id # NoId

\* an exception raised in the worker of s has just been handled: the handler
\* of _run_real_wipe (wipe_service.py:322-323) or, for a simulated wipe, that
\* of _run_wipe (216-217) has called _update_wipe_status
FaultHandled(s) ==
  \/ worker[s].pc # "h2_cb" /\ worker'[s].pc = "h2_cb"
  \/ worker[s].pc = "sim_cb" /\ worker'[s].pc = "exit"

\* C25: a fault raised while one job executes ends only that job: the status
\* of the job becomes failed with the fault in its error field, and the step
\* changes no field of the record of any other job.
C25_FaultEndsOnlyItsJob ==
  [][\A s \in Starters :
       Started(s) /\ FaultHandled(s) =>
         /\ start_args[s].wipe_id \in DOMAIN active_wipes'
         /\ active_wipes'[start_args[s].wipe_id].status = "failed"
         /\ "error" \in DOMAIN active_wipes'[start_args[s].wipe_id]
         /\ \A r \in Starters \ {s} :
              Started(r) =>
                active_wipes'[start_args[r].wipe_id]
                  = active_wipes[start_args[r].wipe_id]]_vars

\* the status of the job request s started
StatusOf(s) ==
  IF start_args[s].wipe_id \in DOMAIN active_wipes
    THEN active_wipes[start_args[s].wipe_id].status
    ELSE "none"

\* the worker of s marks its job completed
MarksCompleted(s) == worker[s].pc = "sim_cb" /\ worker'[s].pc = "sim_done_cb"

\* C26: every job started with simulated execution and no callback reaches
\* status completed, its worker being scheduled fairly, and when its worker
\* marks it completed the job has progress 100 and its logs are exactly the
\* 18 scripted lines in script order.
C26_SimulatedJobCompletes ==
  /\ \A s \in Starters :
       Started(s) /\ start_args[s].simulated ~> StatusOf(s) = "completed"
  /\ [][\A s \in Starters :
           MarksCompleted(s) =>
             LET job == active_wipes'[start_args[s].wipe_id]
             IN /\ job.status = "completed"
                /\ job.progress = 100
                /\ job.logs = stages(start_args[s].device_path,
                                     start_args[s].method)
                /\ Len(job.logs) = 18]_vars

\* C27: the value status(job_id) returned is a snapshot: while a request
\* holds it, it does not change when the worker of the job writes status,
\* progress, logs, end_time or error. What the holder reads is the record
\* poll_ref names.
C27_StatusIsSnapshot ==
  [][poll_ref # NoId /\ poll_ref' = poll_ref =>
       active_wipes'[poll_ref] = active_wipes[poll_ref]]_vars

\* C28: in every reachable state a job record has end_time only if its
\* status is completed or failed, and error only if its status is failed.
C28_EndTimeAndErrorOnlyWhenTerminal ==
  \A id \in DOMAIN active_wipes :
    /\ "end_time" \in DOMAIN active_wipes[id] =>
         active_wipes[id].status \in {"completed", "failed"}
    /\ "error" \in DOMAIN active_wipes[id] =>
         active_wipes[id].status = "failed"

\* C29: a start request with confirmation false or absent, or without a
\* device path, is answered with 400, creates no job record and launches no
\* worker.
C29_UnconfirmedStartRejected ==
  [][\A s \in Starters, device_path \in PostedPaths, simulated \in BOOLEAN,
        confirmation \in BOOLEAN :
       (/\ device_path = "" \/ ~confirmation
        /\ StartRequest(s, device_path, confirmation, simulated)) =>
         /\ ResponseCode(start_result'[s]) = 400
         /\ start_result'[s].wipe_id = NoId
         /\ active_wipes' = active_wipes
         /\ worker' = worker]_vars

\* a request for a free disk was refused for want of confirmation, and one
\* that gave none of the two as well
C29_Witness ==
  /\ start_pc[1] = "done"
  /\ start_args[1].device_path = "/dev/sda"
  /\ start_result[1].error
  /\ start_pc[2] = "done"
  /\ start_args[2].device_path = ""
  /\ start_result[2].error
  /\ active_wipes = << >>
  /\ \A s \in {1, 2} : worker[s].pc = "none"

\* the worker of s reads the next line of the tool's output
ReadsLine(s) ==
  /\ worker[s].pc \in {"stream", "real_cb"}
  /\ worker[s].stdout # << >>
  /\ worker'[s].stdout = Tail(worker[s].stdout)

\* the lines of the tool that hold no percentage
NoPercent == {"  Pass 1 of 3\n", "\n"}

\* the lines of the tool that are empty but for white space
Blank == {"\n"}

\* C30: during a real execution an output line without a percent pattern
\* leaves the progress of the job at its previous value, and every non-empty
\* output line is appended to the logs of the job, so in the order in which
\* the tool emitted them; the text logged is the line without the white space
\* around it.
C30_RealLineEffect ==
  [][\A s \in Starters :
       ReadsLine(s) =>
         LET line == Head(worker[s].stdout)
             id == start_args[s].wipe_id
         IN /\ line \in NoPercent =>
                 active_wipes'[id].progress = active_wipes[id].progress
            /\ active_wipes'[id].logs =
                 IF line \in Blank THEN active_wipes[id].logs
                 ELSE Append(active_wipes[id].logs, <<strip(line)>>)]_vars

\* the tool printed a percentage and then a line without one
C30_Witness ==
  \E id \in DOMAIN active_wipes :
    /\ active_wipes[id].progress = 50
    /\ Len(active_wipes[id].logs) = 3
    /\ active_wipes[id].logs[2] = <<"Wiping 50%">>
    /\ active_wipes[id].logs[3] = <<"Pass 1 of 3">>

\* C31: a ledger block is appended only for a job that has finished: the
\* wipe_status of every erasure-certificate block of the ledger is completed
\* or failed, never starting or running.
C31_BlocksOfFinishedJobs ==
  \A i \in 1..Len(ledger_file.blocks) :
    IsErasure(ledger_file.blocks[i]) =>
      ledger_file.blocks[i].data.wipe_status \in Terminal

\* the write-back of request c fails after it has begun
WriteBackFails(c) == cert_pc[c] = "dump" /\ cert_pc'[c] = "failed"

\* C32: if an append fails after it has begun writing the ledger back, the
\* persisted ledger is either the ledger before the append or that ledger plus
\* the complete new block, never an empty, truncated or partly written one.
C32_FailedAppendIsAllOrNothing ==
  [][\A c \in Callers :
       WriteBackFails(c) =>
         /\ Stored'
         /\ \/ ledger_file'.blocks = loc_ledger[c]
            \/ OneMoreThan(ledger_file'.blocks, loc_ledger[c])]_vars

\* C33: every successful start inserts a job under an id different from every
\* id already in the registry: start never overwrites an existing job record.
C33_StartNeverOverwrites ==
  [][\A s \in Starters :
       StartReturns(s) /\ ~start_result'[s].error =>
         /\ start_result'[s].wipe_id \notin DOMAIN active_wipes
         /\ \A id \in DOMAIN active_wipes :
              active_wipes'[id] = active_wipes[id]]_vars

\* C34: every report returned by get_wipe_report is consistent in itself, also
\* when the worker updates the job while the report is being built: its
\* verification is 'Passed' exactly when its status is 'completed', and its
\* duration is 'In progress' exactly when its end_time is 'N/A'.
C34_ReportConsistent ==
  report.pc = "built" =>
    /\ report.verification = "Passed" <=> report.status = "completed"
    /\ report.duration = InProgress <=> report.end_time = None

\* the verify result v and the search result records tell the same
Agree(v, records) ==
  /\ v.found <=> records # << >>
  /\ v.found =>
       LET last == records[Len(records)]
       IN /\ last.block_index = v.block_index
          /\ last.certificate_id = v.certificate_data.certificate_id
          /\ last.certificate_hash = v.certificate_data.certificate_hash
  /\ \A i, j \in 1..Len(records) :
       i < j => records[i].block_index < records[j].block_index

\* a verify by serial number alone
BySerialAlone(f) ==
  f.certificate_id = << >> /\ f.serial_number # 0 /\ f.certificate_hash = << >>

\* C35: on every ledger and for every serial number, verify by serial_number
\* alone and search_by_serial agree: verify reports found exactly when
\* search_by_serial returns a non-empty list, the block verify reports is the
\* last record of that list (block_index, certificate_id, certificate_hash),
\* and the list is in ascending block index.
C35_VerifyAndSearchAgree ==
  [][/\ (Returns("verify") /\ BySerialAlone(audit')) =>
          Agree(audit'.result,
                search_by_serial(ledger_file, audit'.serial_number))
     /\ (Returns("search") /\ audit'.serial_number # 0) =>
          Agree(_verify_local_certificate(ledger_file, << >>,
                                          audit'.serial_number, << >>),
                audit'.result)]_vars

\* a verify by serial number alone on a ledger with two blocks of that serial
C35_Witness ==
  /\ audit.op = "verify"
  /\ BySerialAlone(audit)
  /\ audit.result.found
  /\ audit.result.block_index = 2
  /\ Len(search_by_serial(ledger_file, audit.serial_number)) = 2

\* the worker of job s waits for wipe_lock
WaitsForWipeLock(s) == worker[s].pc = "update" /\ worker[s].k = 1

\* a lock passes from free to held or from held to free
TakenOrGiven(lock, free) == lock' # lock => lock = free \/ lock' = free

\* request c waits for a lock or holds one
Locking(c) ==
  \/ cert_pc[c] \in {"lock", "reported"}
  \/ ledger_lock = c
  \/ wipe_lock = Requester(c)

\* C36: the system cannot deadlock: no thread holds the job-registry lock and
\* the ledger lock at the same time, no thread takes a lock that is held,
\* every acquisition of either lock is followed by its release on every path
\* (return, conflict return, raised fault), and every operation that waits for
\* a lock obtains it under fair scheduling: a thread that waits for a lock or
\* holds one comes to hold none and wait for none, which a waiting thread can
\* only do by obtaining the lock.
C36_NoDeadlock ==
  /\ [](\A c \in Callers : ~(ledger_lock = c /\ wipe_lock = Requester(c)))
  /\ [][/\ TakenOrGiven(ledger_lock, NoCaller)
        /\ TakenOrGiven(wipe_lock, NoWorker)
        /\ \A c \in Callers :
             /\ cert_pc[c] = "lock" /\ cert_pc'[c] # "lock" => ledger_lock' = c
             /\ cert_pc[c] = "reported" /\ cert_pc'[c] # "reported" =>
                  wipe_lock' = Requester(c)]_vars
  /\ \A c \in Certifiers : Locking(c) ~> ~Locking(c)
  /\ \A s \in Polled :
       (WaitsForWipeLock(s) \/ wipe_lock = s)
         ~> ~(WaitsForWipeLock(s) \/ wipe_lock = s)

\* the write-back of one request has failed and the next request has got the
\* ledger lock, while the worker of the job holds wipe_lock
C36_Witness ==
  /\ cert_pc[1] = "failed"
  /\ ledger_file.partial
  /\ ledger_lock = 2
  /\ \E s \in Polled : wipe_lock = s

====
